---------------------------- MODULE Spec2Model ----------------------------
(***************************************************************************)
(* A model of venn/_venn.py: the petal-label computation, the consistency  *)
(* checker, the colour generator, the two diagram composers and the two    *)
(* top-level entry points.                                                 *)
(*                                                                         *)
(* A Python str is a sequence of one-character strings (<<"1","0">> is     *)
(* "10"), a dict is the sequence of its <<key, value>> pairs in insertion  *)
(* order, an optional argument is <<>> (None) or <<v>>.  A call either     *)
(* returns or raises: every operator that models a function yields a       *)
(* record whose err field is "none" or the exception's class.  A call is a *)
(* record of the function's name and its arguments; the fields fmt,        *)
(* petal_labels, legend_loc and ax are held as optional in every call.     *)
(***************************************************************************)
EXTENDS Integers, Sequences, FiniteSets

VARIABLES pc, call, result, ax, trace

vars == <<pc, call, result, ax, trace>>

(* ------------------------------ bounds --------------------------------- *)

\* Largest number of elements in the union of the input sets.
MaxElem == 2

\* Largest number of entries of a caller-supplied petal_labels dict.
MaxKeys == 2

\* Largest length of an explicit colour list.
MaxColors == 3

(* ------------------------------ values --------------------------------- *)

None == <<>>

Some(v) == <<v>>

IsNone(o) == Len(o) = 0

Pow2(n) == 2 ^ n

RECURSIVE SeqSum(_)
SeqSum(s) == IF Len(s) = 0 THEN 0 ELSE Head(s) + SeqSum(Tail(s))

Min(a, b) == IF a <= b THEN a ELSE b

Range(s) == {s[i] : i \in 1..Len(s)}

DigitChars == <<"0", "1", "2", "3", "4", "5", "6", "7", "8", "9">>

\* str(n) for an int n >= 0, as "{size}" renders it.
RECURSIVE DecStr(_)
DecStr(n) ==
    IF n < 10 THEN <<DigitChars[n + 1]>>
    ELSE DecStr(n \div 10) \o <<DigitChars[(n % 10) + 1]>>

\* bin(i)[2:]
RECURSIVE Bin(_)
Bin(i) ==
    IF i < 2 THEN <<DigitChars[i + 1]>>
    ELSE Bin(i \div 2) \o <<DigitChars[(i % 2) + 1]>>

\* str.zfill(n) of a string that carries no sign
RECURSIVE Zfill(_, _)
Zfill(s, n) == IF Len(s) >= n THEN s ELSE Zfill(<<"0">> \o s, n)

\* str(x) of the float x = num/den >= 0: its integer part, the point and the
\* tenths digit (the later digits of the repr are left out: no caller reads
\* them, and the point alone makes int() refuse the string).
FloatStr(num, den) ==
    DecStr(num \div den) \o <<".">> \o <<DigitChars[(((num % den) * 10) \div den) + 1]>>

(* ------------------------------- dicts --------------------------------- *)

Keys(d) == [i \in 1..Len(d) |-> d[i][1]]

HasKey(d, k) == \E i \in 1..Len(d) : d[i][1] = k

DictGet(d, k) == d[CHOOSE i \in 1..Len(d) : d[i][1] = k][2]

\* d[k] = v
DictSet(d, k, v) ==
    IF HasKey(d, k)
    THEN [i \in 1..Len(d) |-> IF d[i][1] = k THEN <<k, v>> ELSE d[i]]
    ELSE Append(d, <<k, v>>)

(* ------------------------- generate_petal_labels ----------------------- *)

T_SIZE == <<"{size}">>

T_LOGIC == <<"{logic}">>

T_PERCENTAGE == <<"{percentage}">>

T_MIXED == <<"{logic}", ":", "{size}">>

Templates == {T_SIZE, T_LOGIC, T_PERCENTAGE, T_MIXED}

\* str.format over the three named fields; any other piece is literal text.
RECURSIVE FormatPieces(_, _, _, _)
FormatPieces(fmt, logic, size, percentage) ==
    IF Len(fmt) = 0 THEN <<>>
    ELSE (CASE Head(fmt) = "{size}" -> DecStr(size)
            [] Head(fmt) = "{logic}" -> logic
            [] Head(fmt) = "{percentage}" -> FloatStr(percentage[1], percentage[2])
            [] OTHER -> <<Head(fmt)>>)
         \o FormatPieces(Tail(fmt), logic, size, percentage)

\* A plausible slip: the percentage is computed only for a template that
\* names the field.
FormatLabelLazy(fmt, logic, size, universe_size) ==
    IF universe_size = 0 /\ "{percentage}" \in Range(fmt)
    THEN [err |-> "ZeroDivisionError", msg |-> "division by zero", val |-> <<>>]
    ELSE [err |-> "none", msg |-> "",
          val |-> FormatPieces(fmt, logic, size,
                               <<100 * size, IF universe_size = 0 THEN 1 ELSE universe_size>>)]

\* fmt.format(logic=logic, size=len(petal_set),
\*            percentage=(100*len(petal_set)/universe_size))
\* The keyword arguments are evaluated before format is entered.
FormatLabel(fmt, logic, size, universe_size) ==
    IF universe_size = 0
    THEN [err |-> "ZeroDivisionError", msg |-> "division by zero", val |-> <<>>]
    ELSE [err |-> "none", msg |-> "",
          val |-> FormatPieces(fmt, logic, size, <<100 * size, universe_size>>)]

SetUnion(sets) == UNION Range(sets)

\* set.intersection(*sets), for at least one set
SetIntersection(sets) == {x \in sets[1] : \A i \in 1..Len(sets) : x \in sets[i]}

\* A plausible slip: the code is read from its right end.
SelectSetsMirrored(datasets, logic, c) ==
    LET n_sets == Len(datasets)
        RECURSIVE Pick(_)
        Pick(i) == IF i > n_sets THEN <<>>
                   ELSE (IF logic[n_sets + 1 - i] = c THEN <<datasets[i]>> ELSE <<>>)
                        \o Pick(i + 1)
    IN  Pick(1)

\* [datasets[i] for i in range(n_sets) if logic[i] == c]
SelectSets(datasets, logic, c) ==
    LET idx == {i \in 1..Len(datasets) : logic[i] = c}
        RECURSIVE Pick(_)
        Pick(i) == IF i > Len(datasets) THEN <<>>
                   ELSE (IF i \in idx THEN <<datasets[i]>> ELSE <<>>) \o Pick(i + 1)
    IN  Pick(1)

\* A plausible slip: the excluded sets are not taken away.
PetalSetKeepExcluded(datasets, logic) ==
    SetUnion(datasets) \cap SetIntersection(SelectSets(datasets, logic, "1"))

PetalSet(datasets, logic) ==
    LET included_sets == SelectSets(datasets, logic, "1")
        excluded_sets == SelectSets(datasets, logic, "0")
    IN  (SetUnion(datasets) \cap SetIntersection(included_sets))
          \ SetUnion(<<{}>> \o excluded_sets)

\* bin(i)[2:].zfill(n_sets)
LogicOf(i, n_sets) == Zfill(Bin(i), n_sets)

\* One pass of the loop body, for the integer i, on the loop's state so far:
\* val is petal_labels, at the logic code whose label raised.
PetalStep(datasets, fmt, st, i) ==
    LET n_sets == Len(datasets)
        logic == LogicOf(i, n_sets)
        label == FormatLabel(fmt, logic, Cardinality(PetalSet(datasets, logic)),
                             Cardinality(SetUnion(datasets)))
    IN  IF label.err # "none"
        THEN [err |-> label.err, msg |-> label.msg, val |-> <<>>, at |-> logic]
        ELSE [st EXCEPT !.val = DictSet(@, logic, label.val)]

\* The loop over range(1, 2**n_sets), from i on: it ends when a label has
\* raised or the range is used up.
RECURSIVE PetalLoop(_, _, _, _)
PetalLoop(datasets, fmt, st, i) ==
    IF st.err # "none" \/ i >= Pow2(Len(datasets)) THEN st
    ELSE PetalLoop(datasets, fmt, PetalStep(datasets, fmt, st, i), i + 1)

\* set.union(*datasets) of no set at all is a TypeError.
generate_petal_labels(datasets, fmt) ==
    IF Len(datasets) = 0
    THEN [err |-> "TypeError", msg |-> "set.union needs an argument", val |-> <<>>,
          at |-> <<>>]
    ELSE PetalLoop(datasets, fmt, [err |-> "none", msg |-> "", val |-> <<>>, at |-> <<>>], 1)

(* ------------------------------ get_n_sets ----------------------------- *)

Raise(cls, msg) == [err |-> cls, msg |-> msg, val |-> <<>>]

Return(v) == [err |-> "none", msg |-> "", val |-> v]

\* The loop over petal_labels.keys(): the first offending key raises.  (The
\* KeyError's message goes on with the key; the model keeps its fixed part.)
RECURSIVE CheckKeys(_, _)
CheckKeys(keys, n_sets) ==
    IF Len(keys) = 0 THEN Return(n_sets)
    ELSE IF Len(Head(keys)) # n_sets
    THEN Raise("ValueError", "Inconsistent petal and dataset labels")
    ELSE IF ~(Range(Head(keys)) \subseteq {"0", "1"})
    THEN Raise("KeyError", "Key not understood")
    ELSE CheckKeys(Tail(keys), n_sets)

\* A plausible slip: only the first key is looked at.
GetNSetsFirstKeyOnly(petal_labels, dataset_labels) ==
    CheckKeys(SubSeq(Keys(petal_labels), 1, Min(1, Len(petal_labels))),
              Len(dataset_labels))

get_n_sets(petal_labels, dataset_labels) ==
    CheckKeys(Keys(petal_labels), Len(dataset_labels))

(* ---------------------------- generate_colors -------------------------- *)

\* Alpha is held in hundredths: 40 is .4.
\* to_rgba(color, alpha=alpha) of a named colour
ToRgba(color, alpha) == [rgb |-> <<color, 0, 1>>, a |-> alpha]

\* ScalarMappable(cmap=cmap).to_rgba(range(n_colors), alpha=alpha).tolist():
\* the colormap sampled at n_colors evenly spaced points.
SampleColormap(name, n_colors, alpha) ==
    [i \in 1..n_colors |-> [rgb |-> <<name, i - 1, n_colors>>, a |-> alpha]]

\* n_colors is [is_int, val]: isinstance(n_colors, int) and its value.
generate_colors(cmap, n_colors, alpha) ==
    IF ~n_colors.is_int \/ n_colors.val < 2 \/ n_colors.val > 6
    THEN Raise("ValueError", "n_colors must be an integer between 2 and 6")
    ELSE LET colors == IF cmap.is_list
                       THEN [i \in 1..Len(cmap.colors) |-> ToRgba(cmap.colors[i], alpha)]
                       ELSE SampleColormap(cmap.name, n_colors.val, alpha)
         IN  Return(SubSeq(colors, 1, Min(n_colors.val, Len(colors))))

\* (1 + to_rgba(color)[3]) / alpha_factor
less_transparent_color(color) == [color EXCEPT !.a = (100 + color.a) \div 2]

(* ------------------------------ the surface ---------------------------- *)

\* A matplotlib Axes as subplots() hands it out; limits in hundredths.
BlankAxes ==
    [aspect |-> "auto", frame_on |-> TRUE, xlim |-> <<0, 100>>, ylim |-> <<0, 100>>,
     ticks |-> "auto", patches |-> <<>>, texts |-> <<>>, legend |-> None]

\* The wrapper of ensure_axes up to the call of the wrapped function: a
\* missing ax is created by subplots(), and the style is set in either case.
ensure_axes(ax_arg, axes) ==
    [(IF IsNone(ax_arg) THEN BlankAxes ELSE axes) EXCEPT !.aspect = "equal", !.frame_on = FALSE, !.xlim = <<-5, 105>>,
                 !.ylim = <<-5, 105>>, !.ticks = "none"]

\* The validation pass that wraps every entry point: TRUE when the keyword
\* arguments are let through.  The calls drawn below are well-typed.
validate_arguments(c) == TRUE

AddPatch(axes, shape, idx, color) ==
    [axes EXCEPT !.patches = Append(@, [shape |-> shape, idx |-> idx, facecolor |-> color,
                                        edgecolor |-> less_transparent_color(color)])]

AddText(axes, kind, where, s) ==
    [axes EXCEPT !.texts = Append(@, [kind |-> kind, where |-> where, s |-> s])]

\* ax.legend(dataset_labels, loc=legend_loc, ...) when legend_loc is given
AddLegend(axes, dataset_labels, legend_loc) ==
    IF IsNone(legend_loc) THEN axes
    ELSE [axes EXCEPT !.legend = Some([labels |-> dataset_labels, loc |-> legend_loc[1]])]

RECURSIVE DrawShapes(_, _, _, _, _)
DrawShapes(axes, shape, colors, i, count) ==
    IF i > count THEN axes
    ELSE DrawShapes(AddPatch(axes, shape, i, colors[i]), shape, colors, i + 1, count)

IsLogic(key, n_sets) == Len(key) = n_sets /\ Range(key) \subseteq {"0", "1"}

(* -------------------------- the layout tables -------------------------- *)

\* len(SHAPE_COORDS[n_sets]): one shape per dataset, for each supported count.
ShapeCount(n_sets) == n_sets

\* logic in PETAL_LABEL_COORDS[n_sets]: every non-zero code has a position.
InPetalLabelCoords(n_sets, logic) == IsLogic(logic, n_sets) /\ "1" \in Range(logic)

\* logic in PSEUDOVENN_PETAL_COORDS[6]: the sparse table holds the codes whose
\* sets are neighbours on the ring of six ellipses (the ones of the code are
\* contiguous, cyclically); "shared only between the 1st and the 4th set",
\* 100100, is not among them.
InPseudovennPetalCoords(logic) ==
    /\ IsLogic(logic, 6)
    /\ "1" \in Range(logic)
    /\ Cardinality({i \in 1..6 : logic[i] = "1" /\ logic[(i % 6) + 1] = "0"}) <= 1

(* ------------------------------- draw_venn ----------------------------- *)

Done(r, axes, steps) ==
    [err |-> r.err, msg |-> r.msg, val |-> r.val, ax |-> axes, trace |-> steps]

\* The loop over petal_labels.items(): the label of every entry whose code
\* has a position is written, in the order of the dict.
DrawPetalTexts(axes, petal_labels, n_sets) ==
    LET Placed(entry) == InPetalLabelCoords(n_sets, entry[1])
        placed == SelectSeq(petal_labels, Placed)
    IN  [axes EXCEPT !.texts = @ \o [i \in 1..Len(placed) |->
            [kind |-> "petal", where |-> placed[i][1], s |-> placed[i][2]]]]

\* A plausible slip: the ellipse layout is taken for six sets too.
ShapeForUpToSix(n_sets) ==
    IF 2 <= n_sets /\ n_sets <= 6 THEN "draw_ellipse" ELSE "none"

\* The choice of draw_shape; "none" is the else branch, which raises.
ShapeFor(n_sets) ==
    IF 2 <= n_sets /\ n_sets < 6 THEN "draw_ellipse"
    ELSE IF n_sets = 6 THEN "draw_triangle"
    ELSE "none"

PatchOf(draw_shape) == IF draw_shape = "draw_ellipse" THEN "Ellipse" ELSE "Polygon"

\* The body of draw_venn on the axes its wrapper hands over.
DrawVennBody(c, axes) ==
    LET petal_labels == c.petal_labels[1]
        n == get_n_sets(petal_labels, c.dataset_labels)
        n_sets == n.val
        draw_shape == ShapeFor(n_sets)
        shaped == DrawShapes(axes, PatchOf(draw_shape), c.colors, 1,
                             Min(ShapeCount(n_sets), Len(c.colors)))
        texted == DrawPetalTexts(shaped, petal_labels, n_sets)
    IN  IF n.err # "none" THEN Done(n, axes, <<"get_n_sets">>)
        ELSE IF draw_shape = "none"
        THEN Done(Raise("ValueError", "Number of sets must be between 2 and 6"),
                  axes, <<"get_n_sets">>)
        ELSE Done(Return("ax"), AddLegend(texted, c.dataset_labels, c.legend_loc),
                  <<"get_n_sets">> \o (IF Len(shaped.patches) > 0 THEN <<draw_shape>> ELSE <<>>))

\* @ensure_axes @validate_arguments def draw_venn
draw_venn(c, axes) ==
    LET styled == ensure_axes(c.ax, axes)
        body == DrawVennBody(c, styled)
    IN  IF ~validate_arguments(c)
        THEN Done(Raise("TypeError", "invalid arguments"), styled, <<"ensure_axes">>)
        ELSE [body EXCEPT !.trace = <<"ensure_axes", "draw_venn">> \o @]

(* ---------------------------- draw_pseudovenn6 ------------------------- *)

Spaces == {" ", "\t", "\n"}

RECURSIVE LStrip(_)
LStrip(s) == IF Len(s) > 0 /\ Head(s) \in Spaces THEN LStrip(Tail(s)) ELSE s

RECURSIVE RStrip(_)
RStrip(s) ==
    IF Len(s) > 0 /\ s[Len(s)] \in Spaces THEN RStrip(SubSeq(s, 1, Len(s) - 1)) ELSE s

DigitVal(ch) == CHOOSE d \in 0..9 : DigitChars[d + 1] = ch

RECURSIVE DigitsVal(_, _)
DigitsVal(s, acc) ==
    IF Len(s) = 0 THEN acc
    ELSE DigitsVal(Tail(s), IF Head(s) = "_" THEN acc ELSE 10 * acc + DigitVal(Head(s)))

\* int(s) of a str: blanks stripped, an optional sign, decimal digits with
\* single underscores between them; anything else is a ValueError.
IntOf(s) ==
    LET t == RStrip(LStrip(s))
        signed == Len(t) > 0 /\ Head(t) \in {"+", "-"}
        d == IF signed THEN Tail(t) ELSE t
        wellformed ==
            /\ Len(d) > 0
            /\ Range(d) \subseteq (Range(DigitChars) \cup {"_"})
            /\ d[1] # "_" /\ d[Len(d)] # "_"
            /\ \A i \in 1..(Len(d) - 1) : ~(d[i] = "_" /\ d[i + 1] = "_")
    IN  IF ~wellformed THEN Raise("ValueError", "invalid literal for int()")
        ELSE Return(IF signed /\ Head(t) = "-" THEN 0 - DigitsVal(d, 0) ELSE DigitsVal(d, 0))

\* str(n) of an int, as "{}".format renders it
IntStr(n) == IF n < 0 THEN <<"-">> \o DecStr(0 - n) ELSE DecStr(n)

\* A plausible slip: the loop stops at the first set of the code.
UpdateHiddenFirstSetOnly(hidden, logic, petal_labels) ==
    LET v == IntOf(DictGet(petal_labels, logic))
        first == CHOOSE i \in 1..Len(logic) :
                    logic[i] = "1" /\ \A j \in 1..(i - 1) : logic[j] = "0"
    IN  IF "1" \notin Range(logic) THEN Return(hidden)
        ELSE IF v.err # "none" THEN v
        ELSE Return([hidden EXCEPT ![first] = @ + v.val])

\* hidden[i] += int(petal_labels[logic]) for every i with logic[i] == "1";
\* int() is reached only when the code has a "1", and raises before any
\* counter has moved.
update_hidden(hidden, logic, petal_labels) ==
    LET v == IntOf(DictGet(petal_labels, logic))
    IN  IF "1" \notin Range(logic) THEN Return(hidden)
        ELSE IF v.err # "none" THEN v
        ELSE Return([i \in 1..Len(hidden) |->
                        IF logic[i] = "1" THEN hidden[i] + v.val ELSE hidden[i]])

OnAxes(r, axes) == [err |-> r.err, msg |-> r.msg, val |-> r.val, ax |-> axes]

\* One pass of the loop over petal_labels.items(), for entry i, on the loop's
\* state so far: val is hidden, ax the surface.
PseudoPetalStep(petal_labels, hint_hidden, st, i) ==
    LET logic == petal_labels[i][1]
        upd == update_hidden(st.val, logic, petal_labels)
    IN  IF InPseudovennPetalCoords(logic)
        THEN [st EXCEPT !.ax = AddText(@, "petal", logic, petal_labels[i][2])]
        ELSE IF ~hint_hidden THEN st
        ELSE OnAxes(upd, st.ax)

\* The loop from entry i on: it ends when update_hidden has raised or the
\* entries are used up.
RECURSIVE PseudoPetalLoop(_, _, _, _)
PseudoPetalLoop(petal_labels, hint_hidden, st, i) ==
    IF st.err # "none" \/ i > Len(petal_labels) THEN st
    ELSE PseudoPetalLoop(petal_labels, hint_hidden,
                         PseudoPetalStep(petal_labels, hint_hidden, st, i), i + 1)

\* The six ellipses on the ring: zip(range(6), colors).
DrawRing(axes, colors) == DrawShapes(axes, "Ellipse", colors, 1, Min(6, Len(colors)))

RECURSIVE DrawHints(_, _, _)
DrawHints(axes, hidden, step) ==
    IF step > Min(6, Len(hidden)) THEN axes
    ELSE DrawHints(AddText(axes, "hint", step,
                           IntStr(hidden[step]) \o <<"\n", " ", "n", "/", "d", "*">>),
                   hidden, step + 1)

\* The explanation names list(dataset_labels)[0] and [3].
draw_hint_explanation(axes, dataset_labels) ==
    AddText(axes, "explanation", <<50, -10>>, <<dataset_labels[1], dataset_labels[4]>>)

\* A plausible slip: only a count below six is refused.
PseudovennCountBelow(n_sets) == n_sets < 6

\* n_sets != 6
PseudovennCountRejected(n_sets) == n_sets # 6

\* The body of draw_pseudovenn6 on the axes its wrapper hands over.
DrawPseudovenn6Body(c, axes) ==
    LET petal_labels == c.petal_labels[1]
        n == get_n_sets(petal_labels, c.dataset_labels)
        n_sets == n.val
        ring == DrawRing(axes, c.colors)
        ellipses == IF Len(ring.patches) > Len(axes.patches) THEN <<"draw_ellipse">>
                    ELSE <<>>
        loop == PseudoPetalLoop(petal_labels, c.hint_hidden,
                                OnAxes(Return([i \in 1..n_sets |-> 0]), ring), 1)
        hinted == IF c.hint_hidden
                  THEN draw_hint_explanation(
                          [DrawHints(loop.ax, loop.val, 1) EXCEPT !.xlim = <<-20, 105>>],
                          c.dataset_labels)
                  ELSE loop.ax
    IN  IF n.err # "none" THEN Done(n, axes, <<"get_n_sets">>)
        ELSE IF PseudovennCountRejected(n_sets)
        THEN Done(Raise("NotImplementedError", "Pseudovenn implemented only for 6 sets"),
                  axes, <<"get_n_sets">>)
        ELSE IF loop.err # "none"
        THEN Done(loop, loop.ax, <<"get_n_sets">> \o ellipses \o <<"update_hidden">>)
        ELSE Done(Return("ax"), AddLegend(hinted, c.dataset_labels, c.legend_loc),
                  <<"get_n_sets">> \o ellipses
                  \o (IF c.hint_hidden /\ \E i \in 1..Len(petal_labels) :
                                            ~InPseudovennPetalCoords(petal_labels[i][1])
                      THEN <<"update_hidden">> ELSE <<>>)
                  \o (IF c.hint_hidden THEN <<"draw_hint_explanation">> ELSE <<>>))

\* @ensure_axes @validate_arguments def draw_pseudovenn6
draw_pseudovenn6(c, axes) ==
    LET styled == ensure_axes(c.ax, axes)
        body == DrawPseudovenn6Body(c, styled)
    IN  IF ~validate_arguments(c)
        THEN Done(Raise("TypeError", "invalid arguments"), styled, <<"ensure_axes">>)
        ELSE [body EXCEPT !.trace = <<"ensure_axes", "draw_pseudovenn6">> \o @]

(* ----------------------------- _venn_dispatch -------------------------- *)

\* A plausible slip: only the literal "{size}" passes, so that a call that
\* gives no template is refused too.
TemplateRejectedUnlessLiteral(func, fmt, hint_hidden) ==
    hint_hidden /\ func = "draw_pseudovenn6" /\ fmt # Some(T_SIZE)

\* hint_hidden and (func == draw_pseudovenn6) and fmt not in {None, "{size}"}
\* (the message of the error it leads to is kept without the template's text)
TemplateRejected(func, fmt, hint_hidden) ==
    hint_hidden /\ func = "draw_pseudovenn6" /\ fmt \notin {None, Some(T_SIZE)}

\* fmt or "{size}": None and the empty string give the default.
FmtOrDefault(fmt) == IF IsNone(fmt) \/ Len(fmt[1]) = 0 THEN T_SIZE ELSE fmt[1]

\* The keyword arguments of func(...) are evaluated in the order written:
\* petal_labels, dataset_labels, colors; then func is called.
venn_dispatch(c, func, axes) ==
    LET given == ~IsNone(c.petal_labels)
        labels == IF given THEN Return(c.petal_labels[1])
                  ELSE generate_petal_labels(c.datasets, FmtOrDefault(c.fmt))
        colors == generate_colors(c.cmap, [is_int |-> TRUE, val |-> Len(c.datasets)],
                                  c.alpha)
        steps1 == <<"_venn_dispatch">>
        steps2 == steps1 \o (IF given THEN <<>> ELSE <<"generate_petal_labels">>)
        steps3 == steps2 \o <<"generate_colors">>
        inner == [c EXCEPT !.petal_labels = Some(labels.val), !.colors = colors.val,
                           !.ax = Some("ax")]
        drawn == IF func = "draw_venn" THEN draw_venn(inner, axes)
                 ELSE draw_pseudovenn6(inner, axes)
    IN  IF TemplateRejected(func, c.fmt, c.hint_hidden)
        THEN Done(Raise("NotImplementedError", "To use fmt, set hint_hidden=False"),
                  axes, steps1)
        ELSE IF labels.err # "none" THEN Done(labels, axes, steps2)
        ELSE IF colors.err # "none" THEN Done(colors, axes, steps3)
        ELSE [drawn EXCEPT !.trace = steps3 \o @]

\* @ensure_axes @validate_arguments def venn / def pseudovenn
Entry(c, func, axes) ==
    LET styled == ensure_axes(c.ax, axes)
        body == venn_dispatch(c, func, styled)
    IN  IF ~validate_arguments(c)
        THEN Done(Raise("TypeError", "invalid arguments"), styled, <<"ensure_axes">>)
        ELSE [body EXCEPT !.trace = <<"ensure_axes">> \o @]

venn(c, axes) == Entry(c, "draw_venn", axes)

pseudovenn(c, axes) == Entry(c, "draw_pseudovenn6", axes)

(* ------------------------------ the calls ------------------------------ *)

\* The set counts the callers pass: the supported 2..6 and 0, 1, 7 around them.
SetCounts == 0..7

Names == <<"A", "B", "C", "D", "E", "F", "G", "H">>

DatasetLabels(n) == SubSeq(Names, 1, n)

\* Bit i (from the left) of an n-bit membership code.
Bit(code, i, n) == (code \div Pow2(n - i)) % 2

\* Every way k interchangeable elements lie in n sets: element e is in the
\* sets named by the ones of m[e], and m is non-decreasing.
Memberships(n, k) ==
    {m \in [1..k -> 1..(Pow2(n) - 1)] : \A e \in 1..(k - 1) : m[e] <= m[e + 1]}

\* Every sequence of n sets whose union has at most MaxElem elements, up to
\* the names of the elements.
DatasetsOf(n) ==
    UNION {{[i \in 1..n |-> {e \in 1..k : Bit(m[e], i, n) = 1}] : m \in Memberships(n, k)} :
           k \in 0..MaxElem}

\* n equal sets of 0..MaxElem elements and, from four sets on, one element
\* shared only between the 1st and the 4th set.
SmallDatasets(n) ==
    {[i \in 1..n |-> 1..k] : k \in 0..MaxElem}
    \cup (IF n >= 4 THEN {[i \in 1..n |-> IF i \in {1, 4} THEN {1} ELSE {}]} ELSE {})

Viridis == [is_list |-> FALSE, name |-> "viridis", colors |-> <<>>]

ColorList(l) == [is_list |-> TRUE, name |-> "", colors |-> l]

ColorNames == <<"red", "green", "blue", "cyan", "magenta", "yellow", "black">>

IntArg(n) == [is_int |-> TRUE, val |-> n]

FloatArg(n) == [is_int |-> FALSE, val |-> n]

BaseCall ==
    [fn |-> "", datasets |-> <<>>, fmt |-> None, petal_labels |-> None,
     dataset_labels |-> <<>>, hint_hidden |-> FALSE, cmap |-> Viridis,
     n_colors |-> IntArg(6), alpha |-> 40, colors |-> <<>>, legend_loc |-> None,
     ax |-> None]

Ones(n) == [i \in 1..n |-> "1"]

\* Keys a caller may put into petal_labels for n sets: the full intersection,
\* the last set alone, the all-zero code, "shared only between the 1st and the
\* 4th set", a key one character too long and a key with a character that is
\* no bit.
KeyPool(n) ==
    {Ones(n), [i \in 1..n |-> IF i = n THEN "1" ELSE "0"], [i \in 1..n |-> "0"],
     [i \in 1..n |-> IF i \in {1, 4} THEN "1" ELSE "0"], Ones(n + 1),
     [i \in 1..n |-> IF i = 1 THEN "2" ELSE "1"]}

LabelPool == {<<"5">>, <<"x">>}

\* The petal_labels dicts of at most MaxKeys entries over KeyPool(n).
LabelDicts(n) ==
    UNION {{d \in [1..k -> KeyPool(n) \X LabelPool] :
               \A i, j \in 1..k : i # j => d[i][1] # d[j][1]} : k \in 0..MaxKeys}

\* The dicts and the datasets the calls below carry, per set count.
DictArgs == [n \in SetCounts |-> LabelDicts(n)]

OneEntryDictArgs ==
    [n \in SetCounts |->
        {None} \cup {Some(<<<<k, l>>>>) : k \in KeyPool(n), l \in LabelPool}]

SmallDataArgs == [n \in SetCounts |-> SmallDatasets(n)]

FmtArgs == {None} \cup {Some(t) : t \in Templates}

CmapArgs == {Viridis, ColorList(<<"red">>)}

\* The colours a caller hands to a composer: six samples of the colormap.
SixColors == SampleColormap("viridis", 6, 40)

LegendLocs == {None, Some("upper right")}

AxArgs == {None, Some("ax")}

ColorCountArgs == {IntArg(v) : v \in 0..8} \cup {FloatArg(3)}

ColorListArgs ==
    {Viridis, ColorList(ColorNames)} \cup {ColorList(SubSeq(ColorNames, 1, l)) : l \in 0..MaxColors}

(* ------------------------------ the machine ---------------------------- *)

NoResult == [err |-> "pending", msg |-> "", val |-> <<>>]

\* A call has been made and has not returned; the surface is a fresh Axes.
Start(c) ==
    /\ pc = "called"
    /\ call = c
    /\ result = NoResult
    /\ ax = BlankAxes
    /\ trace = <<>>

\* generate_petal_labels with the default template on every sequence of 1..6
\* sets, and with every template on the small datasets.
StartLabels ==
    \/ \E n \in 1..6 : \E d \in DatasetsOf(n) :
          Start([BaseCall EXCEPT !.fn = "generate_petal_labels", !.datasets = d,
                                 !.fmt = Some(T_SIZE)])
    \/ \E n \in SetCounts : \E d \in SmallDataArgs[n], t \in Templates :
          Start([BaseCall EXCEPT !.fn = "generate_petal_labels", !.datasets = d,
                                 !.fmt = Some(t)])

StartNSets ==
    \E n \in SetCounts : \E d \in DictArgs[n] :
        Start([BaseCall EXCEPT !.fn = "get_n_sets", !.petal_labels = Some(d),
                               !.dataset_labels = DatasetLabels(n)])

StartColors ==
    \E m \in ColorListArgs, n \in ColorCountArgs, a \in {40, 100} :
        Start([BaseCall EXCEPT !.fn = "generate_colors", !.cmap = m, !.n_colors = n,
                               !.alpha = a])

\* A direct call of a composer.
StartComposer(fn) ==
    \E n \in SetCounts :
        \E d \in DictArgs[n], h \in BOOLEAN, l \in LegendLocs, a \in AxArgs :
            Start([BaseCall EXCEPT !.fn = fn, !.petal_labels = Some(d),
                                   !.dataset_labels = DatasetLabels(n), !.hint_hidden = h,
                                   !.colors = SixColors, !.legend_loc = l, !.ax = a])

\* A call of an entry point: data is the pair dataset_labels (its keys) and
\* datasets (its values); petal_labels is left out or has one entry.
StartEntry(fn) ==
    \E n \in SetCounts :
        \E d \in SmallDataArgs[n], p \in OneEntryDictArgs[n], f \in FmtArgs,
           h \in BOOLEAN, m \in CmapArgs, l \in LegendLocs, a \in AxArgs :
            Start([BaseCall EXCEPT !.fn = fn, !.datasets = d,
                                   !.dataset_labels = DatasetLabels(n),
                                   !.petal_labels = p, !.fmt = f, !.hint_hidden = h,
                                   !.cmap = m, !.legend_loc = l, !.ax = a])

\* pseudovenn with its defaults on every sequence of six sets.
StartHint ==
    \E d \in DatasetsOf(6), f \in {None, Some(T_SIZE)} :
        Start([BaseCall EXCEPT !.fn = "pseudovenn", !.datasets = d,
                               !.dataset_labels = DatasetLabels(6), !.fmt = f,
                               !.hint_hidden = TRUE, !.legend_loc = Some("upper right")])

\* A function that touches no surface returns or raises.
Finish(r) ==
    /\ pc' = "returned"
    /\ result' = r
    /\ trace' = <<call.fn>>
    /\ UNCHANGED <<call, ax>>

\* A rendering call returns or raises, and leaves the surface as drawn so far.
FinishDrawn(r) ==
    /\ pc' = "returned"
    /\ result' = [err |-> r.err, msg |-> r.msg, val |-> r.val]
    /\ ax' = r.ax
    /\ trace' = r.trace
    /\ UNCHANGED call

GeneratePetalLabels ==
    /\ pc = "called" /\ call.fn = "generate_petal_labels"
    /\ Finish(generate_petal_labels(call.datasets, call.fmt[1]))

GetNSets ==
    /\ pc = "called" /\ call.fn = "get_n_sets"
    /\ Finish(get_n_sets(call.petal_labels[1], call.dataset_labels))

GenerateColors ==
    /\ pc = "called" /\ call.fn = "generate_colors"
    /\ Finish(generate_colors(call.cmap, call.n_colors, call.alpha))

DrawVenn ==
    /\ pc = "called" /\ call.fn = "draw_venn"
    /\ FinishDrawn(draw_venn(call, ax))

DrawPseudovenn6 ==
    /\ pc = "called" /\ call.fn = "draw_pseudovenn6"
    /\ FinishDrawn(draw_pseudovenn6(call, ax))

Venn ==
    /\ pc = "called" /\ call.fn = "venn"
    /\ FinishDrawn(venn(call, ax))

Pseudovenn ==
    /\ pc = "called" /\ call.fn = "pseudovenn"
    /\ FinishDrawn(pseudovenn(call, ax))

\* The functions that compute: labels, set count, colours.
Init == StartLabels \/ StartNSets \/ StartColors

Next == GeneratePetalLabels \/ GetNSets \/ GenerateColors

Spec == Init /\ [][Next]_vars

\* The two composers, called directly.
InitCompose == StartComposer("draw_venn") \/ StartComposer("draw_pseudovenn6")

NextCompose == DrawVenn \/ DrawPseudovenn6

SpecCompose == InitCompose /\ [][NextCompose]_vars

\* The two entry points.
InitEntry == StartEntry("venn") \/ StartEntry("pseudovenn")

NextEntry == Venn \/ Pseudovenn

SpecEntry == InitEntry /\ [][NextEntry]_vars

\* The pseudo-Venn composer, called directly and through its entry point.
InitPseudo == StartComposer("draw_pseudovenn6") \/ StartEntry("pseudovenn")

NextPseudo == DrawPseudovenn6 \/ Pseudovenn

SpecPseudo == InitPseudo /\ [][NextPseudo]_vars

\* pseudovenn with hints on six sets of every shape.
InitHint == StartHint

NextHint == Pseudovenn

SpecHint == InitHint /\ [][NextHint]_vars

(* ------------------------------ properties ----------------------------- *)

Returned(fn) == pc = "returned" /\ call.fn = fn

Raised == result.err \notin {"none", "pending"}

\* The logic codes of n sets: the binary strings of length n that are not
\* all zeros.
LogicCodes(n) == {k \in [1..n -> {"0", "1"}] : "1" \in Range(k)}

\* The elements that lie in exactly the sets the ones of logic name.
Region(datasets, logic) ==
    {e \in SetUnion(datasets) :
        \A j \in 1..Len(datasets) : (e \in datasets[j]) <=> (logic[j] = "1")}

\* The sizes a mapping of "{size}" labels reports, in the order of its keys.
ReportedSizes(labels) == [i \in 1..Len(labels) |-> IntOf(labels[i][2]).val]

\* C1: for 2 to 6 sets with a non-empty union and the "{size}" template,
\* generate_petal_labels returns, and the petal sizes of its 2^N - 1 codes
\* add up to the size of the union: every element is counted in one petal.
C1_PartitionProperty ==
    (/\ Returned("generate_petal_labels")
     /\ call.fmt = Some(T_SIZE)
     /\ Len(call.datasets) \in 2..6
     /\ SetUnion(call.datasets) # {})
    => /\ result.err = "none"
       /\ Len(result.val) = Pow2(Len(call.datasets)) - 1
       /\ SeqSum(ReportedSizes(result.val)) = Cardinality(SetUnion(call.datasets))

\* Three sets, two elements, one of them shared by the first two sets.
C1_Witness ==
    /\ Returned("generate_petal_labels")
    /\ call.fmt = Some(T_SIZE)
    /\ Len(call.datasets) = 3
    /\ Cardinality(SetUnion(call.datasets)) = 2
    /\ call.datasets[1] \cap call.datasets[2] # {}
    /\ call.datasets[3] # {}
    /\ result.err = "none"
    /\ SeqSum(ReportedSizes(result.val)) = 2

\* C2: for at least 2 sets with a non-empty union, the keys of the mapping
\* generate_petal_labels returns are the 2^N - 1 non-zero binary strings of
\* length N, each once, and the size reported for a code is the number of
\* elements in every set whose bit (left to right, in input order) is 1 and in
\* no set whose bit is 0.
C2_KeysAndSizes ==
    (/\ Returned("generate_petal_labels")
     /\ Len(call.datasets) >= 2
     /\ SetUnion(call.datasets) # {})
    => /\ result.err = "none"
       /\ Range(Keys(result.val)) = LogicCodes(Len(call.datasets))
       /\ Len(result.val) = Pow2(Len(call.datasets)) - 1
       /\ \A i \in 1..Len(result.val) :
            LET logic == result.val[i][1]
                size == DecStr(Cardinality(Region(call.datasets, logic)))
            IN  /\ call.fmt = Some(T_SIZE) => result.val[i][2] = size
                /\ call.fmt = Some(T_MIXED) => result.val[i][2] = logic \o <<":">> \o size
                /\ call.fmt = Some(T_LOGIC) => result.val[i][2] = logic

\* Six sets: an element of the 1st and the 4th set only is reported under
\* 100100, and the full intersection is empty.
C2_Witness ==
    /\ Returned("generate_petal_labels")
    /\ call.fmt = Some(T_SIZE)
    /\ Len(call.datasets) = 6
    /\ result.err = "none"
    /\ Len(result.val) = 63
    /\ DictGet(result.val, <<"1", "0", "0", "1", "0", "0">>) = <<"1">>
    /\ DictGet(result.val, Ones(6)) = <<"0">>

MalformedKey(key, n_sets) ==
    Len(key) # n_sets \/ \E i \in 1..Len(key) : key[i] \notin {"0", "1"}

\* C3: get_n_sets raises when some key of petal_labels has a length other than
\* the number of dataset labels or holds a character other than 0 and 1, and
\* returns nothing then; otherwise, for an empty or partial mapping too, it
\* returns the number of dataset labels.
C3_GetNSets ==
    Returned("get_n_sets")
    => LET petal_labels == call.petal_labels[1]
           n == Len(call.dataset_labels)
       IN  IF \E i \in 1..Len(petal_labels) : MalformedKey(petal_labels[i][1], n)
           THEN result.err \in {"ValueError", "KeyError"} /\ result.val = <<>>
           ELSE result.err = "none" /\ result.val = n

\* Three dataset labels, a well-formed first key and a second key with a
\* character that is no bit.
C3_Witness ==
    /\ Returned("get_n_sets")
    /\ Len(call.dataset_labels) = 3
    /\ Len(call.petal_labels[1]) = 2
    /\ call.petal_labels[1][1][1] = <<"1", "1", "1">>
    /\ call.petal_labels[1][2][1] = <<"2", "1", "1">>
    /\ result.err = "KeyError"

\* C6: generate_colors returns exactly N RGBA tuples, each with the requested
\* alpha as its 4th component, for every integer N in 2..6, from a colormap
\* name and from an explicit list alike, and raises for every other N.
C6_ExactlyN ==
    Returned("generate_colors")
    => IF call.n_colors.is_int /\ call.n_colors.val \in 2..6
       THEN /\ result.err = "none"
            /\ Len(result.val) = call.n_colors.val
            /\ \A i \in 1..Len(result.val) : result.val[i].a = call.alpha
       ELSE result.err = "ValueError"

\* C10: when there is at least one set and every set is empty,
\* generate_petal_labels raises ZeroDivisionError at the first logic code,
\* 0..01, and returns no mapping, whatever the template.
C10_EmptyUniverse ==
    (/\ Returned("generate_petal_labels")
     /\ Len(call.datasets) >= 1
     /\ SetUnion(call.datasets) = {})
    => /\ result.err = "ZeroDivisionError"
       /\ result.val = <<>>
       /\ result.at = [i \in 1..Len(call.datasets) |->
                           IF i = Len(call.datasets) THEN "1" ELSE "0"]

\* Three empty sets and the "{size}" template, which names no percentage.
C10_Witness ==
    /\ Returned("generate_petal_labels")
    /\ call.fmt = Some(T_SIZE)
    /\ call.datasets = <<{}, {}, {}>>
    /\ result.err = "ZeroDivisionError"
    /\ result.at = <<"0", "0", "1">>

\* The texts of one kind on a surface, in the order written.
TextsOf(axes, kind) ==
    LET OfKind(t) == t.kind = kind
    IN  SelectSeq(axes.texts, OfKind)

\* The hidden count annotated at ellipse i: the number before the line break
\* of the hint "<count>\n n/d*".
HintCount(axes, i) ==
    LET hints == TextsOf(axes, "hint")
        s == hints[CHOOSE j \in 1..Len(hints) : hints[j].where = i].s
        cut == CHOOSE j \in 1..Len(s) : s[j] = "\n" /\ \A l \in 1..(j - 1) : s[l] # "\n"
    IN  IntOf(SubSeq(s, 1, cut - 1)).val

\* The sum of the sizes written at the displayed codes whose bit i is 1.
DisplayedSum(axes, i) ==
    LET petals == TextsOf(axes, "petal")
    IN  SeqSum([j \in 1..Len(petals) |->
                  IF petals[j].where[i] = "1" THEN IntOf(petals[j].s).val ELSE 0])

\* The logic code of the petal an element lies in.
CodeOf(datasets, e) == [j \in 1..Len(datasets) |-> IF e \in datasets[j] THEN "1" ELSE "0"]

\* The elements of set i that lie in a petal no text has been written for.
Undisplayed(axes, datasets, i) ==
    LET petals == TextsOf(axes, "petal")
    IN  {e \in datasets[i] :
            \A j \in 1..Len(petals) : petals[j].where # CodeOf(datasets, e)}

\* C7: pseudovenn with hint_hidden, six sets with a non-empty union and
\* computed petal labels returns, and for each set i the hidden count annotated
\* at its ellipse plus the sizes written at the displayed codes whose bit i is 1
\* is the cardinality of set i; the hidden count of set i is the number of its
\* elements that lie in undisplayed petals.
C7_HiddenAccounting ==
    (/\ Returned("pseudovenn")
     /\ call.hint_hidden
     /\ Len(call.datasets) = 6
     /\ IsNone(call.petal_labels)
     /\ call.fmt \in {None, Some(T_SIZE)}
     /\ SetUnion(call.datasets) # {})
    => /\ result.err = "none"
       /\ Len(TextsOf(ax, "hint")) = 6
       /\ \A i \in 1..6 :
            /\ \E j \in 1..6 : TextsOf(ax, "hint")[j].where = i
            /\ HintCount(ax, i) + DisplayedSum(ax, i) = Cardinality(call.datasets[i])
            /\ HintCount(ax, i) = Cardinality(Undisplayed(ax, call.datasets, i))

\* One element shared only between the 1st and the 4th set, which no petal
\* shows, and one in a displayed petal of the 1st set.
C7_Witness ==
    /\ Returned("pseudovenn")
    /\ call.hint_hidden
    /\ IsNone(call.petal_labels)
    /\ result.err = "none"
    /\ Cardinality(call.datasets[1]) = 2
    /\ \E e \in call.datasets[1] :
          CodeOf(call.datasets, e) = <<"1", "0", "0", "1", "0", "0">>
    /\ HintCount(ax, 1) = 1
    /\ HintCount(ax, 4) = 1
    /\ HintCount(ax, 2) = 0
    /\ DisplayedSum(ax, 1) = 1

\* No shape, no text and no legend on the surface.
NothingDrawn(axes) == axes.patches = <<>> /\ axes.texts = <<>> /\ axes.legend = None

\* Some key of the caller's petal_labels is no logic code of n_sets sets.
SomeKeyMalformed(petal_labels, n_sets) ==
    \E i \in 1..Len(petal_labels) : MalformedKey(petal_labels[i][1], n_sets)

\* C4: draw_venn raises for every set count outside 2..6, before any shape,
\* text or legend is drawn (with well-formed codes the error is the set-count
\* ValueError), and for every set count in 2..6 with well-formed codes it
\* returns with one shape per set drawn by the ellipse drawer when 2 <= N <= 5
\* and by the triangle drawer when N = 6.
C4_DrawVennSetCount ==
    Returned("draw_venn")
    => LET n == Len(call.dataset_labels)
           malformed == SomeKeyMalformed(call.petal_labels[1], n)
       IN  /\ n \notin 2..6
              => /\ Raised
                 /\ NothingDrawn(ax)
                 /\ ~malformed
                    => /\ result.err = "ValueError"
                       /\ result.msg = "Number of sets must be between 2 and 6"
           /\ (n \in 2..6 /\ ~malformed)
              => /\ result.err = "none"
                 /\ Len(ax.patches) = n
                 /\ \A i \in 1..Len(ax.patches) :
                       ax.patches[i].shape = IF n <= 5 THEN "Ellipse" ELSE "Polygon"
                 /\ trace = <<"ensure_axes", "draw_venn", "get_n_sets",
                              IF n <= 5 THEN "draw_ellipse" ELSE "draw_triangle">>

\* Seven sets, a label for the full intersection and a legend asked for: the
\* call raises and the surface carries nothing.
C4_Witness ==
    /\ Returned("draw_venn")
    /\ Len(call.dataset_labels) = 7
    /\ call.petal_labels = Some(<<<<Ones(7), <<"5">>>>>>)
    /\ call.legend_loc # None
    /\ result.err = "ValueError"
    /\ NothingDrawn(ax)

\* The composer's error for a set count it does not support.
NotSupported ==
    /\ result.err = "NotImplementedError"
    /\ result.msg = "Pseudovenn implemented only for 6 sets"

\* C5 as stated: a pseudo-Venn call with a set count other than 6, to the
\* composer or through pseudovenn, ends in a 'not supported' error with nothing
\* drawn (for well-formed codes and, where the labels are computed, a
\* non-empty union).
C5_AlwaysNotSupported ==
    (/\ pc = "returned"
     /\ call.fn \in {"draw_pseudovenn6", "pseudovenn"}
     /\ Len(call.dataset_labels) # 6
     /\ ~IsNone(call.petal_labels)
        => ~SomeKeyMalformed(call.petal_labels[1], Len(call.dataset_labels))
     /\ IsNone(call.petal_labels) => SetUnion(call.datasets) # {})
    => result.err = "NotImplementedError" /\ NothingDrawn(ax)

\* The call gets as far as the set-count check of the composer: nothing before
\* it raises.
ReachesCountCheck ==
    LET n == Len(call.dataset_labels)
        given == ~IsNone(call.petal_labels)
    IN  IF call.fn = "draw_pseudovenn6"
        THEN ~SomeKeyMalformed(call.petal_labels[1], n)
        ELSE /\ ~(call.hint_hidden /\ call.fmt \notin {None, Some(T_SIZE)})
             /\ given \/ (n >= 1 /\ SetUnion(call.datasets) # {})
             /\ n \in 2..6
             /\ given => ~SomeKeyMalformed(call.petal_labels[1], n)

\* C5: a pseudo-Venn call with a set count other than 6, to the composer or
\* through pseudovenn, raises with nothing drawn; the error is the composer's
\* 'not supported' exactly when the call reaches the composer's set-count
\* check, which through pseudovenn no call with 0, 1 or more than 6 sets does.
C5_RejectedUndrawn ==
    (/\ pc = "returned"
     /\ call.fn \in {"draw_pseudovenn6", "pseudovenn"}
     /\ Len(call.dataset_labels) # 6)
    => /\ Raised
       /\ NothingDrawn(ax)
       /\ NotSupported <=> ReachesCountCheck
       /\ (call.fn = "pseudovenn" /\ Len(call.dataset_labels) \notin 2..5)
          => ~NotSupported /\ "draw_pseudovenn6" \notin Range(trace)

\* pseudovenn on seven sets with a non-empty union: generate_colors raises
\* before the composer is called.
C5_Witness ==
    /\ Returned("pseudovenn")
    /\ Len(call.datasets) = 7
    /\ SetUnion(call.datasets) # {}
    /\ ~call.hint_hidden
    /\ result.err = "ValueError"
    /\ result.msg = "n_colors must be an integer between 2 and 6"
    /\ NothingDrawn(ax)

\* C8: pseudovenn with hint_hidden and a template other than None and "{size}"
\* raises the dispatcher's NotImplementedError before petal labels are
\* computed, colours generated or the composer called; venn, and pseudovenn
\* without hint_hidden, are never refused by that check.
C8_TemplateRejection ==
    (pc = "returned" /\ call.fn \in {"venn", "pseudovenn"})
    => IF call.fn = "pseudovenn" /\ call.hint_hidden /\ call.fmt \notin {None, Some(T_SIZE)}
       THEN /\ result.err = "NotImplementedError"
            /\ result.msg = "To use fmt, set hint_hidden=False"
            /\ trace = <<"ensure_axes", "_venn_dispatch">>
            /\ NothingDrawn(ax)
       ELSE /\ result.msg # "To use fmt, set hint_hidden=False"
            /\ Len(trace) > 2
            /\ SubSeq(trace, 1, 2) = <<"ensure_axes", "_venn_dispatch">>

\* One empty set and the percentage template: computing the labels would
\* divide by zero and one colour would be refused, yet the call ends in the
\* dispatcher's error.
C8_Witness ==
    /\ Returned("pseudovenn")
    /\ call.hint_hidden
    /\ call.fmt = Some(T_PERCENTAGE)
    /\ call.datasets = <<{}>>
    /\ IsNone(call.petal_labels)
    /\ result.err = "NotImplementedError"
    /\ trace = <<"ensure_axes", "_venn_dispatch">>

\* C9: whenever a rendering call raises, the surface the caller supplied is
\* as it was before the call: no shape, text, hint or legend added and no axis
\* setting changed.
C9_NeverPartial ==
    (/\ pc = "returned"
     /\ call.fn \in {"venn", "pseudovenn", "draw_venn", "draw_pseudovenn6"}
     /\ Raised
     /\ ~IsNone(call.ax))
    => ax = BlankAxes

=============================================================================
